---------------------------- MODULE Spec2Model ----------------------------
(***************************************************************************)
(* A model of the API-deployment admission and reconciliation layer of the *)
(* cortex operator: the manifest validation pass                           *)
(* (ExtractAPIConfigs, validateAPIs, validateAPI and its rules), the       *)
(* TensorFlow export resolution on object storage and the operator cron    *)
(* (deleteEvictedPods, updateHPAs).                                        *)
(*                                                                         *)
(* Strings the code takes apart are sequences of symbols: a path is a      *)
(* sequence of components (bucket first), a component is a sequence of     *)
(* symbols, a decimal digit being one symbol.  Strings the code only       *)
(* compares are TLA+ strings.                                              *)
(***************************************************************************)
EXTENDS Integers, Sequences, FiniteSets, TLC

VARIABLES
    \* ---- object storage and the TensorFlow export resolution
    s3,          \* the objects of the bucket: a set of paths
    listing,     \* the order in which ListObjects returns the keys (by directory)
    listFails,   \* whether the ListObjects call fails
    tfPath,      \* the path handed to getTFServingExportFromS3Path
    tfResult,    \* its result, NotRun before the call
    tfPc,
    \* ---- the manifest and the validation pass
    manifest,        \* the raw manifest entries handed to ExtractAPIConfigs
    apis,            \* the []*API the pass works on (validateAPI writes to its elements)
    projectFileMap,  \* the paths of the project's files
    virtualServices, \* the cluster's virtual services
    nodeMem,         \* the memory figure updateMemoryCapacityConfigMap returns
    instance,        \* config.Cluster.InstanceMetadata
    k8sFails,        \* which of the two fetches of getValidationK8sResources fail
    maxMem,          \* the quantity the pass's maxMem pointer refers to
    vsSnap,          \* the virtual services the pass holds
    fetched,         \* whether getValidationK8sResources has been called
    vIdx,            \* the position of the pass in apis
    vErr,            \* what the pass returned
    vPc,
    caller,          \* the function the run is a call of
    \* ---- the cluster the operator cron works on, and one tick of it
    deployments,     \* the deployments that bear an apiName label
    pods,            \* the pods of the cluster
    hpas,            \* the API names that have a horizontal autoscaler
    now,             \* the clock, in seconds
    ticks,           \* how many ticks have started
    cronDeployments, \* operatorCron's deployments
    cronFailedPods,  \* operatorCron's failedPods
    calls,           \* the cluster client calls of the tick, in order
    sweepErr,        \* what deleteEvictedPods returned
    cronErr,         \* what operatorCron returned
    hpasAtTick,      \* the autoscalers when the tick began
    prevTick,        \* the tick before: its result, its clock, the number of its writes
    cronPc

tfVars == <<s3, listing, listFails, tfPath, tfResult, tfPc>>
inputVars == <<manifest, projectFileMap, virtualServices, nodeMem, instance, k8sFails>>
passVars == <<apis, maxMem, vsSnap, fetched, vIdx, vErr, vPc, caller>>

clusterVars == <<deployments, pods, hpas, now>>
tickVars == <<ticks, cronDeployments, cronFailedPods, calls, sweepErr, cronErr, hpasAtTick,
              prevTick, cronPc>>
cronVars == <<clusterVars, tickVars>>

vars == <<tfVars, inputVars, passVars, cronVars>>

NotRun == "not-run"

\* A Go pointer (or an optional manifest key): nil is the empty sequence, a
\* pointer to x the one-element sequence.
NilPtr == <<>>
Ptr(x) == <<x>>
Deref(p) == p[1]

\* Errors: a kind, the API the error is wrapped with (its Index, -1 when it
\* is wrapped with none), the path of wrapping keys and the arguments
\* rendered in the message.
Err(kind, args) == [kind |-> kind, api |-> -1, path |-> <<>>, args |-> args]
NoErr == Err("nil", <<>>)
IsErr(err) == err.kind # "nil"
\* errors.Wrap(err, keys...); wrapping no error gives no error
Wrap(err, keys) == IF IsErr(err) THEN [err EXCEPT !.path = keys \o @] ELSE err
\* errors.Wrap(err, api.Identify(), keys...)
WrapAPI(err, index, keys) ==
    IF IsErr(err) THEN [err EXCEPT !.api = index, !.path = keys \o @] ELSE err

\* The variables of a part that a specification does not exercise.
IdleTF ==
    /\ tfPath = <<>>
    /\ tfResult = NotRun
    /\ tfPc = "idle"

IdlePass ==
    /\ manifest = <<>>
    /\ apis = <<>>
    /\ projectFileMap = {}
    /\ virtualServices = <<>>
    /\ nodeMem = 0
    /\ instance = [CPU |-> 0, GPU |-> 0]
    /\ k8sFails = {}
    /\ maxMem = 0
    /\ vsSnap = <<>>
    /\ fetched = FALSE
    /\ vIdx = 0
    /\ vErr = NoErr
    /\ vPc = "idle"
    /\ caller = "none"

IdleCron ==
    /\ deployments = <<>>
    /\ pods = <<>>
    /\ hpas = {}
    /\ now = 0
    /\ ticks = 0
    /\ cronDeployments = <<>>
    /\ cronFailedPods = <<>>
    /\ calls = <<>>
    /\ sweepErr = NoErr
    /\ cronErr = NoErr
    /\ hpasAtTick = {}
    /\ prevTick = [ran |-> FALSE, err |-> NoErr, now |-> 0, writes |-> 0]
    /\ cronPc = "none"

(***************************************************************************)
(* Helpers on sequences.                                                   *)
(***************************************************************************)
Last(s) == s[Len(s)]
Front(s) == SubSeq(s, 1, Len(s) - 1)
Range(s) == {s[i] : i \in 1..Len(s)}
IsPrefixOf(p, s) == Len(p) <= Len(s) /\ SubSeq(s, 1, Len(p)) = p

\* Every ordering of the finite set S, as a sequence without repetition.
Orderings(S) ==
    {f \in [1..Cardinality(S) -> S] : \A i, j \in 1..Cardinality(S) : i # j => f[i] # f[j]}

(***************************************************************************)
(* Object storage.                                                         *)
(***************************************************************************)
\* The most version directories under the model prefix.
MaxDirs == 2

Bucket == <<"b">>
ModelDir == <<"m">>
SavedModelPb == <<"saved_model.pb">>
VariablesDir == <<"variables">>
VariablesIndex == <<"variables.index">>
VariablesDataPrefix == <<"variables.data-00000-of">>
VariablesData == <<"variables.data-00000-of", "-00001">>

\* Names of the children of the model prefix: decimal versions (one with a
\* leading zero, one of two digits) and a name that is no integer.
VersionNames == {<<"1">>, <<"2">>, <<"1", "0">>, <<"0", "2">>, <<"x">>}

\* The objects of a complete TensorFlow export at directory d.
ExportObjects(d) ==
    { d \o <<SavedModelPb>>,
      d \o <<VariablesDir, VariablesIndex>>,
      d \o <<VariablesDir, VariablesData>> }

\* An export whose variables are missing.
PbOnlyObjects(d) == { d \o <<SavedModelPb>> }

\* strconv.ParseInt(s, 10, 64) on a string of symbols: the value of a
\* non-empty string of decimal digits, an error otherwise.
DigitValue ==
    [c \in {"0", "1", "2", "3", "4", "5", "6", "7", "8", "9"} |->
        CASE c = "0" -> 0 [] c = "1" -> 1 [] c = "2" -> 2 [] c = "3" -> 3
          [] c = "4" -> 4 [] c = "5" -> 5 [] c = "6" -> 6 [] c = "7" -> 7
          [] c = "8" -> 8 [] c = "9" -> 9]

RECURSIVE DecimalValue(_)
DecimalValue(str) ==
    IF str = <<>> THEN 0
    ELSE 10 * DecimalValue(Front(str)) + DigitValue[Last(str)]

ParseInt(str) ==
    IF str # <<>> /\ \A i \in 1..Len(str) : str[i] \in DOMAIN DigitValue
    THEN [err |-> FALSE, value |-> DecimalValue(str)]
    ELSE [err |-> TRUE, value |-> 0]

\* awsClient.IsS3PathFile: every given path is an object.
IsS3PathFile(paths) == paths \subseteq s3

\* awsClient.IsS3PathPrefix: some object's path starts with the given string;
\* the last component of the argument may be the start of a component.
IsS3PathPrefix(path) ==
    \E o \in s3 :
        /\ Len(o) >= Len(path)
        /\ SubSeq(o, 1, Len(path) - 1) = Front(path)
        /\ IsPrefixOf(Last(path), o[Len(path)])

isValidTensorFlowS3Directory(path) ==
    IF ~IsS3PathFile({path \o <<SavedModelPb>>, path \o <<VariablesDir, VariablesIndex>>})
    THEN FALSE
    ELSE IF ~IsS3PathPrefix(path \o <<VariablesDir, VariablesDataPrefix>>)
    THEN FALSE
    ELSE TRUE

\* strings.HasSuffix(key, "saved_model.pb"), the key given as components.
HasSuffixSavedModelPb(key) ==
    /\ key # <<>>
    /\ Last(key) # <<>>
    /\ Last(Last(key)) = "saved_model.pb"

\* The loop of getTFServingExportFromS3Path over resp.Contents, from entry i
\* on, with the highest version and path found so far.
RECURSIVE tfScan(_, _, _, _, _)
tfScan(bucket, contents, i, highestVersion, highestPath) ==
    IF i > Len(contents) THEN highestPath
    ELSE
        LET key == contents[i] IN
        IF ~HasSuffixSavedModelPb(key)
        THEN tfScan(bucket, contents, i + 1, highestVersion, highestPath)
        ELSE
            LET keyParts == key
                versionStr == keyParts[Len(keyParts)]
                parsed == ParseInt(versionStr)
                version == IF parsed.err THEN 0 ELSE parsed.value
                possiblePath == <<bucket>> \o Front(keyParts)
            IN  IF version >= highestVersion /\ isValidTensorFlowS3Directory(possiblePath)
                THEN tfScan(bucket, contents, i + 1, version, possiblePath)
                ELSE tfScan(bucket, contents, i + 1, highestVersion, highestPath)

\* S3.ListObjects(bucket, prefix + "/"): the keys (paths without the bucket)
\* below the prefix in the order the store returns them; the error is dropped
\* by the caller and a failed call carries no contents.
ListObjects(bucket, prefix) ==
    IF listFails THEN <<>>
    ELSE
        LET keys == [i \in 1..Len(listing) |-> Tail(listing[i])]
            under(k) == listing[k][1] = bucket /\ IsPrefixOf(prefix, keys[k]) /\ Len(keys[k]) > Len(prefix)
            RECURSIVE pick(_)
            pick(k) == IF k > Len(listing) THEN <<>>
                       ELSE IF under(k) THEN <<keys[k]>> \o pick(k + 1)
                       ELSE pick(k + 1)
        IN  pick(1)

\* The empty string stands for "no path".
getTFServingExportFromS3Path(path) ==
    IF isValidTensorFlowS3Directory(path) THEN path
    ELSE
        LET bucket == Head(path)
            prefix == Tail(path)
            contents == ListObjects(bucket, prefix)
        IN  tfScan(bucket, contents, 1, 0, <<>>)

(***************************************************************************)
(* The resolution applied to every small bucket.                           *)
(***************************************************************************)
\* What a directory of the bucket holds.
DirContents == {"export", "pbOnly"}

ObjectsOf(d, c) == IF c = "export" THEN ExportObjects(d) ELSE PbOnlyObjects(d)

\* The keys of a directory in the order the store lists them.
DirListing(d, c) ==
    IF c = "export"
    THEN << d \o <<SavedModelPb>>, d \o <<VariablesDir, VariablesData>>, d \o <<VariablesDir, VariablesIndex>> >>
    ELSE << d \o <<SavedModelPb>> >>

RECURSIVE Flatten(_)
Flatten(ss) == IF ss = <<>> THEN <<>> ELSE Head(ss) \o Flatten(Tail(ss))

ModelPath == <<Bucket, ModelDir>>

\* A layout: the contents of some version directories and, possibly, of the
\* model prefix itself.
Layouts ==
    {f \in UNION {[D -> DirContents] : D \in SUBSET ({ModelPath} \cup {ModelPath \o <<v>> : v \in VersionNames})} :
        Cardinality(DOMAIN f \ {ModelPath}) <= MaxDirs}

InitTF ==
    /\ \E f \in Layouts :
        /\ s3 = UNION {ObjectsOf(d, f[d]) : d \in DOMAIN f}
        /\ \E order \in Orderings(DOMAIN f) :
              listing = Flatten([i \in 1..Len(order) |-> DirListing(order[i], f[order[i]])])
    /\ listFails \in BOOLEAN
    /\ tfPath = ModelPath
    /\ tfResult = NotRun
    /\ tfPc = "start"
    /\ IdlePass
    /\ IdleCron

ResolveTF ==
    /\ tfPc = "start"
    /\ tfResult' = getTFServingExportFromS3Path(tfPath)
    /\ tfPc' = "done"
    /\ UNCHANGED <<s3, listing, listFails, tfPath, inputVars, passVars, cronVars>>

NextTF == ResolveTF

SpecTF == InitTF /\ [][NextTF]_vars

(***************************************************************************)
(* C3: TF version resolution.  Whenever getTFServingExportFromS3Path       *)
(* returns a non-empty path other than the given path, that path is a      *)
(* valid TensorFlow directory and the integer version of its final         *)
(* component is at least the version of every other valid candidate        *)
(* directory under the given prefix, whatever the listing order.           *)
(***************************************************************************)
\* The version of a directory: its final component as an integer, 0 when it
\* is no integer.
DirVersion(d) == LET parsed == ParseInt(Last(d)) IN IF parsed.err THEN 0 ELSE parsed.value

\* The directories below the given path that hold a saved_model.pb and are
\* valid TensorFlow directories.
ValidCandidates ==
    {Front(o) : o \in {x \in s3 : /\ Last(x) = SavedModelPb
                                  /\ IsPrefixOf(tfPath, x)
                                  /\ Len(x) > Len(tfPath) + 1
                                  /\ isValidTensorFlowS3Directory(Front(x))}}

C3_HighestValidVersion ==
    (tfPc = "done" /\ tfResult # <<>> /\ tfResult # tfPath)
        => /\ isValidTensorFlowS3Directory(tfResult)
           /\ \A c \in ValidCandidates : DirVersion(tfResult) >= DirVersion(c)

(***************************************************************************)
(* The schema: cr.Struct(api, data, _apiValidation) on one manifest entry. *)
(* An entry gives each key as an optional value.                           *)
(***************************************************************************)
DefaultMinReplicas == 1
DefaultMaxReplicas == 100
\* "200m", in millicores
DefaultCPU == 200
DefaultGPU == 0

PredictorTypes == {"python", "tensorflow", "onnx"}

\* An Int32Validation/Int64Validation with a default: the value, or the default
\* when the key is missing.
WithDefault(opt, default) == IF opt = NilPtr THEN default ELSE Deref(opt)

\* s.EnsureSuffix(path, "/") on a string of symbols.
EnsureSuffixSlash(str) == IF str # <<>> /\ Last(str) = "/" THEN str ELSE str \o <<"/">>

\* The kinds of the field errors of an entry, in the order of the table.
StructErrors(data) ==
    LET c == data.compute
        minReplicas == WithDefault(c.minReplicas, DefaultMinReplicas)
        maxReplicas == WithDefault(c.maxReplicas, DefaultMaxReplicas)
        initReplicas == WithDefault(c.initReplicas, minReplicas)
    IN  (IF data.name = NilPtr \/ Deref(data.name) = "" THEN <<"name: must be defined">> ELSE <<>>)
     \o (IF data.predictor = NilPtr THEN <<"predictor: must be defined">>
         ELSE (IF Deref(data.predictor).type \notin PredictorTypes THEN <<"predictor.type: invalid">> ELSE <<>>)
           \o (IF Deref(data.predictor).path = NilPtr THEN <<"predictor.path: must be defined">> ELSE <<>>))
     \o (IF ~(minReplicas > 0) THEN <<"min_replicas: must be greater than 0">> ELSE <<>>)
     \o (IF ~(maxReplicas > 0) THEN <<"max_replicas: must be greater than 0">> ELSE <<>>)
     \o (IF ~(initReplicas > 0) THEN <<"init_replicas: must be greater than 0">> ELSE <<>>)
     \o (IF ~(WithDefault(c.cpu, DefaultCPU) > 0) THEN <<"cpu: must be greater than 0">> ELSE <<>>)
     \o (IF c.mem # NilPtr /\ ~(Deref(c.mem) > 0) THEN <<"mem: must be greater than 0">> ELSE <<>>)
     \o (IF ~(WithDefault(c.gpu, DefaultGPU) >= 0) THEN <<"gpu: must be greater than or equal to 0">> ELSE <<>>)

\* The API the table builds from an entry without field errors.
StructAPI(data) ==
    LET c == data.compute
        p == Deref(data.predictor)
        minReplicas == WithDefault(c.minReplicas, DefaultMinReplicas)
    IN  [ Name |-> Deref(data.name),
          Endpoint |-> data.endpoint,
          Predictor |-> [ Type |-> p.type,
                          Path |-> Deref(p.path),
                          Model |-> p.model,
                          PythonPath |-> IF p.pythonPath = NilPtr THEN NilPtr
                                         ELSE Ptr(EnsureSuffixSlash(Deref(p.pythonPath))),
                          SignatureKey |-> p.signatureKey ],
          Compute |-> [ MinReplicas |-> minReplicas,
                        MaxReplicas |-> WithDefault(c.maxReplicas, DefaultMaxReplicas),
                        InitReplicas |-> WithDefault(c.initReplicas, minReplicas),
                        CPU |-> WithDefault(c.cpu, DefaultCPU),
                        Mem |-> c.mem,
                        GPU |-> WithDefault(c.gpu, DefaultGPU) ],
          Index |-> 0 ]

(***************************************************************************)
(* The predictor rules.  Each returns the error and the predictor as the   *)
(* call leaves it.                                                         *)
(***************************************************************************)
validatePythonPredictor(predictor) ==
    IF predictor.SignatureKey # NilPtr
    THEN Err("ErrFieldNotSupportedByPredictorType", <<"signature_key", "python">>)
    ELSE IF predictor.Model # NilPtr
    THEN Err("ErrFieldNotSupportedByPredictorType", <<"model", "python">>)
    ELSE NoErr

\* strings.HasSuffix(model, ".zip")
HasSuffixZip(model) == model # <<>> /\ Last(model) # <<>> /\ Last(Last(model)) = ".zip"

\* validateTensorFlowPredictor without the test of the empty path.
validateTensorFlowPredictorNoEmptyTest(predictor) ==
    IF predictor.Model = NilPtr
    THEN [err |-> Err("ErrFieldMustBeDefinedForPredictorType", <<"model", "tensorflow">>),
          predictor |-> predictor]
    ELSE IF HasSuffixZip(Deref(predictor.Model))
    THEN [err |-> IF ~IsS3PathFile({Deref(predictor.Model)})
                  THEN Wrap(Err("ErrS3FileNotFound", <<Deref(predictor.Model)>>), <<"model">>)
                  ELSE NoErr,
          predictor |-> predictor]
    ELSE [err |-> NoErr,
          predictor |-> [predictor EXCEPT
                            !.Model = Ptr(getTFServingExportFromS3Path(Deref(predictor.Model)))]]

validateTensorFlowPredictor(predictor) ==
    IF predictor.Model = NilPtr
    THEN [err |-> Err("ErrFieldMustBeDefinedForPredictorType", <<"model", "tensorflow">>),
          predictor |-> predictor]
    ELSE
        LET model == Deref(predictor.Model) IN
        IF HasSuffixZip(model)
        THEN [err |-> IF ~IsS3PathFile({model})
                      THEN Wrap(Err("ErrS3FileNotFound", <<model>>), <<"model">>)
                      ELSE NoErr,
              predictor |-> predictor]
        ELSE
            LET path == getTFServingExportFromS3Path(model) IN
            IF path = <<>>
            THEN [err |-> Wrap(Err("ErrInvalidTensorFlowDir", <<model>>), <<"model">>),
                  predictor |-> predictor]
            ELSE [err |-> NoErr, predictor |-> [predictor EXCEPT !.Model = Ptr(path)]]

\* validateONNXPredictor without its signature key test.
validateONNXPredictorNoSignatureKeyTest(predictor) ==
    IF predictor.Model = NilPtr
    THEN Err("ErrFieldMustBeDefinedForPredictorType", <<"model", "onnx">>)
    ELSE IF ~IsS3PathFile({Deref(predictor.Model)})
    THEN Wrap(Err("ErrS3FileNotFound", <<Deref(predictor.Model)>>), <<"model">>)
    ELSE NoErr

\* The function has no return statement after its last check: control that gets
\* there returns the zero error.
validateONNXPredictor(predictor) ==
    IF predictor.Model = NilPtr
    THEN Err("ErrFieldMustBeDefinedForPredictorType", <<"model", "onnx">>)
    ELSE
        LET model == Deref(predictor.Model) IN
        IF ~IsS3PathFile({model})
        THEN Wrap(Err("ErrS3FileNotFound", <<model>>), <<"model">>)
        ELSE IF predictor.SignatureKey # NilPtr
        THEN Err("ErrFieldNotSupportedByPredictorType", <<"signature_key", "onnx">>)
        ELSE NoErr

\* strings.HasPrefix(fileKey, pythonPath) for some file of the project
validatePythonPath(pythonPath) ==
    IF \E fileKey \in projectFileMap : IsPrefixOf(pythonPath, fileKey)
    THEN NoErr
    ELSE Err("ErrImplDoesNotExist", <<pythonPath>>)

\* The switch on predictor.Type.
validatePredictorByType(predictor) ==
    CASE predictor.Type = "python" ->
            [err |-> validatePythonPredictor(predictor), predictor |-> predictor]
      [] predictor.Type = "tensorflow" -> validateTensorFlowPredictor(predictor)
      [] predictor.Type = "onnx" ->
            [err |-> validateONNXPredictor(predictor), predictor |-> predictor]
      [] OTHER -> [err |-> NoErr, predictor |-> predictor]

\* The checks that follow the switch, r being what the switch left.
validatePredictorFiles(r) ==
    IF IsErr(r.err) THEN r
    ELSE IF r.predictor.Path \notin projectFileMap
    THEN [r EXCEPT !.err = Wrap(Err("ErrImplDoesNotExist", <<r.predictor.Path>>), <<"path">>)]
    ELSE IF r.predictor.PythonPath # NilPtr
    THEN [r EXCEPT !.err = Wrap(validatePythonPath(Deref(r.predictor.PythonPath)), <<"python_path">>)]
    ELSE r

validatePredictor(predictor) == validatePredictorFiles(validatePredictorByType(predictor))

(***************************************************************************)
(* The compute rules.  maxMem is a *kresource.Quantity: Sub writes to the  *)
(* quantity the caller's pointer refers to, so each rule returns the error *)
(* and the quantity as the call leaves it.  maxCPU is a copy of the        *)
(* instance's figure.                                                      *)
(***************************************************************************)
\* The fixed reservations, in the units of the memory and CPU figures.
CortexMemReserve == 2
NvidiaMemReserve == 1
CortexCPUReserve == 800
NvidiaCPUReserve == 100

\* validateAvailableCompute without its GPU comparison.
validateAvailableComputeNoGPU(compute, mem) ==
    LET maxGPU == instance.GPU
        memAfter == IF maxGPU > 0
                    THEN (mem - CortexMemReserve) - NvidiaMemReserve
                    ELSE mem - CortexMemReserve
        maxCPU == IF maxGPU > 0
                  THEN (instance.CPU - CortexCPUReserve) - NvidiaCPUReserve
                  ELSE instance.CPU - CortexCPUReserve
        err == IF maxCPU < compute.CPU
               THEN Err("ErrNoAvailableNodeComputeLimit", <<"CPU", compute.CPU, maxCPU>>)
               ELSE IF compute.Mem # NilPtr /\ memAfter < Deref(compute.Mem)
               THEN Err("ErrNoAvailableNodeComputeLimit", <<"Memory", Deref(compute.Mem), memAfter>>)
               ELSE NoErr
    IN  [err |-> err, maxMem |-> memAfter]

validateAvailableCompute(compute, mem) ==
    LET maxGPU == instance.GPU
        memAfter == IF maxGPU > 0
                    THEN (mem - CortexMemReserve) - NvidiaMemReserve
                    ELSE mem - CortexMemReserve
        maxCPU == IF maxGPU > 0
                  THEN (instance.CPU - CortexCPUReserve) - NvidiaCPUReserve
                  ELSE instance.CPU - CortexCPUReserve
        err == IF maxCPU < compute.CPU
               THEN Err("ErrNoAvailableNodeComputeLimit", <<"CPU", compute.CPU, maxCPU>>)
               ELSE IF compute.Mem # NilPtr /\ memAfter < Deref(compute.Mem)
               THEN Err("ErrNoAvailableNodeComputeLimit", <<"Memory", Deref(compute.Mem), memAfter>>)
               ELSE IF compute.GPU > maxGPU
               THEN Err("ErrNoAvailableNodeComputeLimit", <<"GPU", compute.GPU, maxGPU>>)
               ELSE NoErr
    IN  [err |-> err, maxMem |-> memAfter]

\* validateCompute without its third comparison.
validateComputeNoInitMin(compute, mem) ==
    IF compute.MinReplicas > compute.MaxReplicas
    THEN [err |-> Err("ErrMinReplicasGreaterThanMax", <<compute.MinReplicas, compute.MaxReplicas>>),
          maxMem |-> mem]
    ELSE IF compute.InitReplicas > compute.MaxReplicas
    THEN [err |-> Err("ErrInitReplicasGreaterThanMax", <<compute.InitReplicas, compute.MaxReplicas>>),
          maxMem |-> mem]
    ELSE validateAvailableCompute(compute, mem)

validateCompute(compute, mem) ==
    IF compute.MinReplicas > compute.MaxReplicas
    THEN [err |-> Err("ErrMinReplicasGreaterThanMax", <<compute.MinReplicas, compute.MaxReplicas>>),
          maxMem |-> mem]
    ELSE IF compute.InitReplicas > compute.MaxReplicas
    THEN [err |-> Err("ErrInitReplicasGreaterThanMax", <<compute.InitReplicas, compute.MaxReplicas>>),
          maxMem |-> mem]
    ELSE IF compute.InitReplicas < compute.MinReplicas
    THEN [err |-> Err("ErrInitReplicasLessThanMin", <<compute.InitReplicas, compute.MinReplicas>>),
          maxMem |-> mem]
    ELSE validateAvailableCompute(compute, mem)

(***************************************************************************)
(* Endpoint collisions against the cluster's virtual services.  A virtual  *)
(* service: its gateways, its endpoints, its apiName label, and which of   *)
(* the two extractions fails on it ("" for none).                          *)
(***************************************************************************)
ApisGateway == "apis-gateway"

\* The scan of validateEndpointCollisions without the gateway test.
RECURSIVE collisionsAnyGatewayFrom(_, _, _)
collisionsAnyGatewayFrom(api, vss, k) ==
    IF k > Len(vss) THEN NoErr
    ELSE
        LET virtualService == vss[k] IN
        IF virtualService.malformed = "gateways"
        THEN Err("ErrExtractVirtualServiceGateways", <<k>>)
        ELSE IF virtualService.malformed = "endpoints"
        THEN Err("ErrExtractVirtualServiceEndpoints", <<k>>)
        ELSE IF \E endpoint \in virtualService.endpoints :
                    endpoint = Deref(api.Endpoint) /\ virtualService.apiName # api.Name
        THEN WrapAPI(Err("ErrDuplicateEndpointOtherDeployment", <<virtualService.apiName>>),
                     api.Index, <<"endpoint", Deref(api.Endpoint)>>)
        ELSE collisionsAnyGatewayFrom(api, vss, k + 1)

RECURSIVE collisionsFrom(_, _, _)
collisionsFrom(api, vss, k) ==
    IF k > Len(vss) THEN NoErr
    ELSE
        LET virtualService == vss[k] IN
        IF virtualService.malformed = "gateways"
        THEN Err("ErrExtractVirtualServiceGateways", <<k>>)
        ELSE IF ApisGateway \notin virtualService.gateways
        THEN collisionsFrom(api, vss, k + 1)
        ELSE IF virtualService.malformed = "endpoints"
        THEN Err("ErrExtractVirtualServiceEndpoints", <<k>>)
        ELSE IF \E endpoint \in virtualService.endpoints :
                    endpoint = Deref(api.Endpoint) /\ virtualService.apiName # api.Name
        THEN WrapAPI(Err("ErrDuplicateEndpointOtherDeployment", <<virtualService.apiName>>),
                     api.Index, <<"endpoint", Deref(api.Endpoint)>>)
        ELSE collisionsFrom(api, vss, k + 1)

validateEndpointCollisions(api, vss) == collisionsFrom(api, vss, 1)

(***************************************************************************)
(* validateAPI: the endpoint default, then the predictor, the compute and  *)
(* the endpoint collision rules.  Returns the error, the API and the       *)
(* memory quantity as the call leaves them.                                *)
(***************************************************************************)
\* "/" + name
DefaultEndpoint(name) == <<"/", name>>

\* The endpoint collision rule, c being what the compute rule left.
validateAPIEndpoint(api, vss, c) ==
    IF IsErr(c.err)
    THEN [err |-> WrapAPI(c.err, api.Index, <<"compute">>), api |-> api, maxMem |-> c.maxMem]
    ELSE [err |-> validateEndpointCollisions(api, vss), api |-> api, maxMem |-> c.maxMem]

\* The compute rule, p being what the predictor rule left.
validateAPICompute(api, vss, mem, p) ==
    IF IsErr(p.err)
    THEN [err |-> WrapAPI(p.err, api.Index, <<"predictor">>),
          api |-> [api EXCEPT !.Predictor = p.predictor], maxMem |-> mem]
    ELSE validateAPIEndpoint([api EXCEPT !.Predictor = p.predictor], vss,
                             validateCompute(api.Compute, mem))

\* The predictor rule, on the API with its endpoint set.
validateAPIPredictor(api, vss, mem) ==
    validateAPICompute(api, vss, mem, validatePredictor(api.Predictor))

\* validateAPI setting the default endpoint whether or not one is given.
validateAPIAlwaysDefault(api, vss, mem) ==
    validateAPIPredictor([api EXCEPT !.Endpoint = Ptr(DefaultEndpoint(api.Name))], vss, mem)

validateAPI(api, vss, mem) ==
    validateAPIPredictor(
        IF api.Endpoint = NilPtr
        THEN [api EXCEPT !.Endpoint = Ptr(DefaultEndpoint(api.Name))]
        ELSE api,
        vss, mem)

(***************************************************************************)
(* findDuplicateNames: the APIs are grouped by name in a map and the map   *)
(* is ranged over, in an order the Go runtime chooses; the group of the    *)
(* first name met that has several APIs is returned.  A group is the       *)
(* positions of its APIs in the list, in declaration order.                *)
(***************************************************************************)
RECURSIVE positionsFrom(_, _, _)
positionsFrom(list, name, i) ==
    IF i > Len(list) THEN <<>>
    ELSE IF Deref(list[i]).Name = name THEN <<i>> \o positionsFrom(list, name, i + 1)
    ELSE positionsFrom(list, name, i + 1)

\* names[name] after the first loop
NamesGroup(list, name) == positionsFrom(list, name, 1)

\* findDuplicateNames with len(names[name]) > 2 as its test.
findDuplicateNamesOverTwo(list) ==
    {NamesGroup(list, name) :
        name \in {n \in {Deref(list[i]).Name : i \in 1..Len(list)} : Len(NamesGroup(list, n)) > 2}}

\* What findDuplicateNames may return: one group per name that occurs more
\* than once; the empty set when it returns nil.
findDuplicateNames(list) ==
    {NamesGroup(list, name) :
        name \in {n \in {Deref(list[i]).Name : i \in 1..Len(list)} : Len(NamesGroup(list, n)) > 1}}

(***************************************************************************)
(* The validation pass, validateAPIs, one action per step: the checks of   *)
(* the whole manifest with the fetch of the cluster's facts, then one      *)
(* validateAPI per API in declaration order.                               *)
(***************************************************************************)
PassReturns(err) ==
    /\ vErr' = err
    /\ vPc' = "done"

\* getValidationK8sResources: the two fetches run side by side and the
\* first error is returned.
FetchErr(f) ==
    IF f = "virtualServices" THEN Err("ErrListVirtualServices", <<>>)
    ELSE Wrap(Err("ErrUpdateMemoryCapacityConfigMap", <<>>), <<"validating memory constraint">>)

ValidateAPIsBegin ==
    /\ vPc = "start"
    /\ IF Len(apis) = 0
       THEN /\ PassReturns(Err("ErrNoAPIs", <<>>))
            /\ UNCHANGED <<maxMem, vsSnap, fetched, vIdx>>
       ELSE IF \E i \in 1..Len(apis) : apis[i] = NilPtr
       THEN \* findDuplicateNames reads api.Name through a nil *API
            /\ PassReturns(Err("panic: nil pointer dereference", <<>>))
            /\ UNCHANGED <<maxMem, vsSnap, fetched, vIdx>>
       ELSE IF findDuplicateNames(apis) # {}
       THEN /\ \E dups \in findDuplicateNames(apis) : PassReturns(Err("ErrDuplicateName", dups))
            /\ UNCHANGED <<maxMem, vsSnap, fetched, vIdx>>
       ELSE /\ fetched' = TRUE
            /\ IF k8sFails # {}
               THEN /\ \E f \in k8sFails : PassReturns(FetchErr(f))
                    /\ UNCHANGED <<maxMem, vsSnap, vIdx>>
               ELSE /\ maxMem' = nodeMem
                    /\ vsSnap' = virtualServices
                    /\ vIdx' = 1
                    /\ vPc' = "loop"
                    /\ vErr' = vErr
    /\ UNCHANGED <<apis, caller, tfVars, inputVars, cronVars>>

\* One turn of the loop of validateAPIs.  The function has no return
\* statement after the loop: a pass that gets there returns the zero error.
ValidateAPIStep ==
    /\ vPc = "loop"
    /\ LET r == validateAPI(Deref(apis[vIdx]), vsSnap, maxMem) IN
        /\ apis' = [apis EXCEPT ![vIdx] = Ptr(r.api)]
        /\ maxMem' = r.maxMem
        /\ IF IsErr(r.err)
           THEN PassReturns(r.err) /\ vIdx' = vIdx
           ELSE IF vIdx = Len(apis)
           THEN PassReturns(NoErr) /\ vIdx' = vIdx
           ELSE vIdx' = vIdx + 1 /\ vPc' = vPc /\ vErr' = vErr
    /\ UNCHANGED <<vsSnap, fetched, caller, tfVars, inputVars, cronVars>>

Accepted == vPc = "done" /\ ~IsErr(vErr)
\* The pass got into its loop.
InLoop == fetched /\ (vPc = "loop" \/ (vPc = "done" /\ (vErr.api >= 0 \/ ~IsErr(vErr))))

(***************************************************************************)
(* The manifests and clusters the pass is run on.                          *)
(***************************************************************************)
\* The most APIs of a manifest, virtual services of a cluster, and entries of
\* a manifest that only varies the names.
MaxAPIs == 2
MaxVirtualServices == 2
MaxNames == 4

APINames == <<"a", "b", "c", "d", "e", "f">>
NameChoices == {"a", "b", "c"}

\* The node's memory and CPU (millicores) figures.
NodeMem == 8
InstanceCPU == 2000

UnsetCompute ==
    [minReplicas |-> NilPtr, maxReplicas |-> NilPtr, initReplicas |-> NilPtr,
     cpu |-> NilPtr, mem |-> NilPtr, gpu |-> NilPtr]

PythonPredictor ==
    [type |-> "python", path |-> Ptr(<<"p.py">>), model |-> NilPtr,
     pythonPath |-> NilPtr, signatureKey |-> NilPtr]

RawEntry(name, endpoint, predictor, compute) ==
    [name |-> Ptr(name), endpoint |-> endpoint, predictor |-> Ptr(predictor), compute |-> compute]

\* Replica counts as a manifest may give them: missing, or a number (0 is
\* refused by the schema).
ReplicaOpts == {NilPtr, Ptr(0), Ptr(1), Ptr(2)}
MemOpts == {NilPtr, Ptr(4), Ptr(6)}
EndpointOpts == {NilPtr, Ptr(<<"/", "a">>), Ptr(<<"/", "x">>)}

\* Entries that vary the endpoint.
EndpointEntries(i) ==
    {RawEntry(APINames[i], e, PythonPredictor, UnsetCompute) : e \in EndpointOpts}

\* Entries that vary the compute: every combination of replica counts, and
\* the memory request with the default replicas or with init < min.
ComputeEntries(i) ==
    {RawEntry(APINames[i], NilPtr, PythonPredictor,
              [UnsetCompute EXCEPT !.minReplicas = r[1], !.maxReplicas = r[2], !.initReplicas = r[3]]) :
        r \in ReplicaOpts \X ReplicaOpts \X ReplicaOpts}
    \cup
    {RawEntry(APINames[i], NilPtr, PythonPredictor,
              [UnsetCompute EXCEPT !.mem = m, !.minReplicas = r, !.initReplicas = Ptr(1)]) :
        m \in MemOpts, r \in {Ptr(1), Ptr(2)}}

\* The entries beside the one that varies in full: the defaults, a memory
\* request that fits the node exactly, and init < min.
SiblingEntries(i) ==
    {RawEntry(APINames[i], NilPtr, PythonPredictor, c) :
        c \in {UnsetCompute,
               [UnsetCompute EXCEPT !.mem = Ptr(6)],
               [UnsetCompute EXCEPT !.minReplicas = Ptr(2), !.initReplicas = Ptr(1)]}}

\* Entries that vary the requests around what the node has left: 1200
\* millicores and 6 of memory without GPU, 1100 and 5 with one.
CapacityEntries(i) ==
    {RawEntry(APINames[i], NilPtr, PythonPredictor,
              [UnsetCompute EXCEPT !.cpu = r[1], !.mem = r[2], !.gpu = r[3]]) :
        r \in {NilPtr, Ptr(1200), Ptr(1300)} \X {NilPtr, Ptr(6), Ptr(7)} \X {NilPtr, Ptr(1), Ptr(2)}}

\* Entries that vary the name only.
NameEntriesAt(i) == {RawEntry(n, NilPtr, PythonPredictor, UnsetCompute) : n \in NameChoices}

\* The manifests of at most n entries whose i-th entry is drawn from E(i).
RECURSIVE ManifestsOfLen(_, _)
ManifestsOfLen(E(_), k) ==
    IF k = 0 THEN {<<>>}
    ELSE {Append(m, e) : m \in ManifestsOfLen(E, k - 1), e \in E(k)}

ManifestsOf(E(_), n) == UNION {ManifestsOfLen(E, k) : k \in 0..n}

\* The manifests of at most n entries with one entry drawn from E and the
\* others from S.
ManifestsAround(E(_), S(_), n) ==
    UNION {UNION {{[m EXCEPT ![j] = e] : m \in ManifestsOfLen(S, k), e \in E(j)} : j \in 1..k} :
              k \in 0..n}

\* The list a caller of validateAPIs builds from a manifest whose entries
\* pass the schema: one API per entry, Index its position.
APIsOf(m) == [i \in 1..Len(m) |-> Ptr([StructAPI(m[i]) EXCEPT !.Index = i - 1])]

VirtualServiceChoices ==
    {[gateways |-> g, endpoints |-> {<<"/", "a">>}, apiName |-> n, malformed |-> ""] :
        g \in {{ApisGateway}, {"other-gateway"}}, n \in {"a", "b"}}
    \cup
    {[gateways |-> {ApisGateway, "other-gateway"}, endpoints |-> {<<"/", "b">>, <<"/", "x">>},
      apiName |-> "a", malformed |-> ""]}
    \cup
    {[gateways |-> {ApisGateway}, endpoints |-> {<<"/", "a">>}, apiName |-> "b", malformed |-> f] :
        f \in {"gateways", "endpoints"}}

VirtualServiceLists == UNION {[1..k -> VirtualServiceChoices] : k \in 0..MaxVirtualServices}

\* The bucket of the pass: a complete export of version 1, a version 2
\* without variables, and an ONNX model.
OnnxModel == <<Bucket, <<"model", ".onnx">>>>
PassObjects ==
    ExportObjects(ModelPath \o <<<<"1">>>>) \cup PbOnlyObjects(ModelPath \o <<<<"2">>>>) \cup {OnnxModel}
PassListing ==
    DirListing(ModelPath \o <<<<"1">>>>, "export") \o DirListing(ModelPath \o <<<<"2">>>>, "pbOnly")
    \o <<OnnxModel>>

ProjectFiles == {<<"p.py">>, <<"src", "/", "util.py">>}

\* A call of validateAPIs on the list built from manifest m, the bucket
\* not yet given.
InitPassStart(m) ==
    /\ \A i \in 1..Len(m) : StructErrors(m[i]) = <<>>
    /\ manifest = m
    /\ apis = APIsOf(m)
    /\ caller = "validateAPIs"
    /\ projectFileMap = ProjectFiles
    /\ IdleTF
    /\ IdleCron
    /\ nodeMem = NodeMem
    /\ maxMem = 0
    /\ vsSnap = <<>>
    /\ fetched = FALSE
    /\ vIdx = 0
    /\ vErr = NoErr
    /\ vPc = "start"

\* A call of validateAPIs on the list built from manifest m.
InitPassOn(m) ==
    /\ InitPassStart(m)
    /\ s3 = PassObjects
    /\ listing = PassListing
    /\ listFails = FALSE

\* A .zip export, and a bucket without a complete export.
ZipModel == <<Bucket, <<"model", ".zip">>>>
NoExportObjects == PbOnlyObjects(ModelPath \o <<<<"2">>>>) \cup {OnnxModel}
NoExportListing == DirListing(ModelPath \o <<<<"2">>>>, "pbOnly") \o <<OnnxModel>>

ModelOpts ==
    {NilPtr, Ptr(OnnxModel), Ptr(ZipModel), Ptr(<<Bucket, <<"gone", ".zip">>>>),
     Ptr(ModelPath), Ptr(ModelPath \o <<<<"1">>>>), Ptr(ModelPath \o <<<<"2">>>>)}

\* Entries that vary the predictor: every type with every model and with
\* or without a signature key, and the implementation paths.
PredictorEntries(i) ==
    {RawEntry(APINames[i], NilPtr,
              [PythonPredictor EXCEPT !.type = t, !.model = m, !.signatureKey = k], UnsetCompute) :
        t \in PredictorTypes, m \in ModelOpts, k \in {NilPtr, Ptr("serving_default")}}
    \cup
    {RawEntry(APINames[i], NilPtr,
              [PythonPredictor EXCEPT !.path = Ptr(f), !.pythonPath = pp], UnsetCompute) :
        f \in {<<"p.py">>, <<"q.py">>}, pp \in {NilPtr, Ptr(<<"src">>), Ptr(<<"lib">>)}}

InitPredictors ==
    /\ \E m \in ManifestsAround(PredictorEntries, SiblingEntries, MaxAPIs) : InitPassStart(m)
    /\ \/ s3 = PassObjects \cup {ZipModel} /\ listing = PassListing
       \/ s3 = NoExportObjects /\ listing = NoExportListing
    /\ listFails \in BOOLEAN
    /\ virtualServices = <<>>
    /\ instance = [CPU |-> InstanceCPU, GPU |-> 0]
    /\ k8sFails = {}

InitEndpoints ==
    /\ \E m \in ManifestsOf(EndpointEntries, MaxAPIs) : InitPassOn(m)
    /\ virtualServices \in VirtualServiceLists
    /\ instance = [CPU |-> InstanceCPU, GPU |-> 0]
    /\ k8sFails = {}

InitCompute ==
    /\ \E m \in ManifestsAround(ComputeEntries, SiblingEntries, MaxAPIs) : InitPassOn(m)
    /\ virtualServices = <<>>
    /\ instance \in {[CPU |-> InstanceCPU, GPU |-> g] : g \in {0, 1}}
    /\ k8sFails = {}

InitCapacity ==
    /\ \E m \in ManifestsAround(CapacityEntries, SiblingEntries, MaxAPIs) : InitPassOn(m)
    /\ virtualServices = <<>>
    /\ instance \in {[CPU |-> InstanceCPU, GPU |-> g] : g \in {0, 1}}
    /\ k8sFails = {}

InitFetch ==
    /\ \E m \in ManifestsOf(EndpointEntries, MaxAPIs) : InitPassOn(m)
    /\ virtualServices = <<>>
    /\ instance = [CPU |-> InstanceCPU, GPU |-> 0]
    /\ k8sFails \in SUBSET {"virtualServices", "memory"}

InitNames ==
    /\ \E m \in ManifestsOf(NameEntriesAt, MaxNames) : InitPassOn(m)
    /\ virtualServices = <<>>
    /\ instance = [CPU |-> InstanceCPU, GPU |-> 0]
    /\ k8sFails = {}

(***************************************************************************)
(* ExtractAPIConfigs: the entries are run through the schema in order, the *)
(* first entry with a field error ends the call; the APIs are appended to  *)
(* a list made with make([]*API, len(configDataSlice)), that is, to a list *)
(* that already holds one nil pointer per entry; the list is then handed   *)
(* to validateAPIs.  The manifest is one that parses into a list of        *)
(* mappings.                                                               *)
(***************************************************************************)
\* Entries with and without field errors.
ExtractEntries(i) ==
    {RawEntry(APINames[i], NilPtr, PythonPredictor, UnsetCompute),
     RawEntry(APINames[1], Ptr(<<"/", "x">>), PythonPredictor, UnsetCompute),
     RawEntry(APINames[i], NilPtr, PythonPredictor, [UnsetCompute EXCEPT !.minReplicas = Ptr(2)]),
     RawEntry(APINames[i], NilPtr, PythonPredictor, [UnsetCompute EXCEPT !.minReplicas = Ptr(0)]),
     RawEntry(APINames[i], NilPtr, PythonPredictor, [UnsetCompute EXCEPT !.mem = Ptr(0)]),
     RawEntry(APINames[i], NilPtr, [PythonPredictor EXCEPT !.type = "tensorflo"], UnsetCompute),
     RawEntry(APINames[i], NilPtr, [PythonPredictor EXCEPT !.path = NilPtr], UnsetCompute),
     RawEntry("", NilPtr, PythonPredictor, UnsetCompute)}

InitExtract ==
    /\ manifest \in ManifestsOf(ExtractEntries, MaxAPIs)
    /\ apis = <<>>
    /\ caller = "ExtractAPIConfigs"
    /\ projectFileMap = ProjectFiles
    /\ s3 = PassObjects
    /\ listing = PassListing
    /\ listFails = FALSE
    /\ IdleTF
    /\ IdleCron
    /\ nodeMem = NodeMem
    /\ virtualServices = <<>>
    /\ instance = [CPU |-> InstanceCPU, GPU |-> 0]
    /\ k8sFails = {}
    /\ maxMem = 0
    /\ vsSnap = <<>>
    /\ fetched = FALSE
    /\ vIdx = 0
    /\ vErr = NoErr
    /\ vPc = "extract"

\* make([]*API, n)
MakeAPIs(n) == [i \in 1..n |-> NilPtr]

\* The list after the loop of ExtractAPIConfigs has run over the first k entries.
RECURSIVE extractLoop(_, _)
extractLoop(data, k) ==
    IF k = 0 THEN MakeAPIs(Len(data))
    ELSE Append(extractLoop(data, k - 1), Ptr([StructAPI(data[k]) EXCEPT !.Index = k - 1]))

\* The entries with a field error.
BadEntries(data) == {i \in 1..Len(data) : StructErrors(data[i]) # <<>>}
FirstOf(S) == CHOOSE i \in S : \A j \in S : i <= j

ExtractAPIConfigs ==
    /\ vPc = "extract"
    /\ IF BadEntries(manifest) # {}
       THEN /\ apis' = extractLoop(manifest, FirstOf(BadEntries(manifest)) - 1)
            /\ PassReturns(WrapAPI(Err(Head(StructErrors(manifest[FirstOf(BadEntries(manifest))])), <<>>),
                                   FirstOf(BadEntries(manifest)) - 1, <<>>))
       ELSE /\ apis' = extractLoop(manifest, Len(manifest))
            /\ vPc' = "start"
            /\ vErr' = vErr
    /\ UNCHANGED <<maxMem, vsSnap, fetched, vIdx, caller, tfVars, inputVars, cronVars>>

Init ==
    \/ InitEndpoints
    \/ InitCompute
    \/ InitCapacity
    \/ InitPredictors
    \/ InitFetch
    \/ InitNames
    \/ InitExtract

Next == ExtractAPIConfigs \/ ValidateAPIsBegin \/ ValidateAPIStep

Spec == Init /\ [][Next]_vars

(***************************************************************************)
(* C1: within one validation pass the capacity snapshot is frozen: every   *)
(* API, whatever its position, has its mem compared against node memory    *)
(* minus the fixed reservations applied once, so an API whose mem fits     *)
(* that value is never rejected for memory.                                *)
(***************************************************************************)
PostReservationMem ==
    IF instance.GPU > 0
    THEN (nodeMem - CortexMemReserve) - NvidiaMemReserve
    ELSE nodeMem - CortexMemReserve

RejectedForMemory ==
    /\ vPc = "done"
    /\ vErr.kind = "ErrNoAvailableNodeComputeLimit"
    /\ vErr.args[1] = "Memory"

C1_FrozenCapacity ==
    RejectedForMemory => Deref(Deref(apis[vIdx]).Compute.Mem) > PostReservationMem

(***************************************************************************)
(* C4: a manifest in which two APIs with different names have the same     *)
(* endpoint (explicit or defaulted) is rejected: the pass accepts a        *)
(* manifest only if its endpoints are pairwise distinct.                   *)
(***************************************************************************)
C4_DistinctEndpoints ==
    Accepted =>
        \A i, j \in 1..Len(apis) :
            i # j => Deref(apis[i]).Endpoint # Deref(apis[j]).Endpoint

(***************************************************************************)
(* C7: validateAPI accepts an API only if no virtual service attached to   *)
(* the API gateway serves the API's endpoint under another apiName; the    *)
(* duplicate-endpoint rejection names such a service, so a service with    *)
(* the same apiName, or one not attached to the gateway, causes none.      *)
(***************************************************************************)
Collides(api, virtualService) ==
    /\ ApisGateway \in virtualService.gateways
    /\ virtualService.malformed = ""
    /\ Deref(api.Endpoint) \in virtualService.endpoints
    /\ virtualService.apiName # api.Name

\* The positions of the APIs that validateAPI has accepted.
PassedAPIs ==
    IF ~InLoop THEN {}
    ELSE IF vPc = "done" /\ ~IsErr(vErr) THEN 1..Len(apis)
    ELSE 1..(vIdx - 1)

C7_EndpointCollision ==
    /\ \A i \in PassedAPIs : \A k \in 1..Len(vsSnap) : ~Collides(Deref(apis[i]), vsSnap[k])
    /\ (vPc = "done" /\ vErr.kind = "ErrDuplicateEndpointOtherDeployment")
          => \E k \in 1..Len(vsSnap) :
                /\ Collides(Deref(apis[vIdx]), vsSnap[k])
                /\ vsSnap[k].apiName = vErr.args[1]

\* An accepted API whose endpoint is served by an attached service of the
\* same apiName and by a service of another apiName that is not attached.
C7_Witness ==
    /\ Accepted
    /\ \E i \in 1..Len(apis) : \E k, l \in 1..Len(vsSnap) :
          /\ ApisGateway \in vsSnap[k].gateways
          /\ Deref(Deref(apis[i]).Endpoint) \in vsSnap[k].endpoints
          /\ vsSnap[k].apiName = Deref(apis[i]).Name
          /\ ApisGateway \notin vsSnap[l].gateways
          /\ Deref(Deref(apis[i]).Endpoint) \in vsSnap[l].endpoints
          /\ vsSnap[l].apiName # Deref(apis[i]).Name

(***************************************************************************)
(* C8: for a manifest in which several names are duplicated, validateAPIs  *)
(* always reports DUPLICATE_NAME for the first duplicated name in          *)
(* declaration order, listing all APIs of that name in declaration order.  *)
(***************************************************************************)
DuplicatedPositions(list) ==
    {i \in 1..Len(list) : Len(NamesGroup(list, Deref(list[i]).Name)) > 1}

C8_FirstDuplicateReported ==
    (vPc = "done" /\ vErr.kind = "ErrDuplicateName")
        => vErr.args = NamesGroup(apis, Deref(apis[FirstOf(DuplicatedPositions(apis))]).Name)

(***************************************************************************)
(* C6: when every entry passes the schema, the list ExtractAPIConfigs      *)
(* builds, validates and returns holds exactly one API per manifest entry, *)
(* in declaration order: same length as the manifest, no nil element, the  *)
(* i-th element built from the i-th entry with Index = i.                  *)
(***************************************************************************)
C6_OneAPIPerEntry ==
    (caller = "ExtractAPIConfigs" /\ vPc # "extract" /\ BadEntries(manifest) = {})
        => /\ Len(apis) = Len(manifest)
           /\ \A i \in 1..Len(apis) :
                /\ apis[i] # NilPtr
                /\ Deref(apis[i]).Index = i - 1
                /\ Deref(apis[i]).Name = Deref(manifest[i].name)

(***************************************************************************)
(* C10: every API of an accepted manifest has                              *)
(* 0 < minReplicas <= initReplicas <= maxReplicas; a compute with          *)
(* min > max, init > max or init < min makes the pass fail, with a replica *)
(* bound error when the pass gets to that API's compute rule.              *)
(***************************************************************************)
ReplicaBoundsHold(compute) ==
    /\ 0 < compute.MinReplicas
    /\ compute.MinReplicas <= compute.InitReplicas
    /\ compute.InitReplicas <= compute.MaxReplicas

ReplicaBoundErrors ==
    {"ErrMinReplicasGreaterThanMax", "ErrInitReplicasGreaterThanMax", "ErrInitReplicasLessThanMin"}

C10_ReplicaBounds ==
    \A i \in 1..Len(apis) :
        (caller = "validateAPIs" /\ vPc = "done") =>
            /\ Accepted => ReplicaBoundsHold(Deref(apis[i]).Compute)
            /\ ~ReplicaBoundsHold(Deref(apis[i]).Compute) =>
                  /\ IsErr(vErr)
                  /\ (InLoop /\ vIdx = i /\ (vErr.path = <<>> \/ Head(vErr.path) # "predictor"))
                        => vErr.kind \in ReplicaBoundErrors

\* An accepted manifest with an API whose replica counts are not the defaults.
C10_Witness ==
    /\ Accepted
    /\ \E i \in 1..Len(apis) :
          /\ Deref(apis[i]).Compute.MinReplicas = 1
          /\ Deref(apis[i]).Compute.InitReplicas = 2
          /\ Deref(apis[i]).Compute.MaxReplicas = 2

(***************************************************************************)
(* The operator cron.  A deployment is [apiName, Replicas, Conditions], a  *)
(* condition [Type, Status, LastUpdateTime], a pod                         *)
(* [Name, apiName, Ready, Latest, Phase, Reason] ("" for no apiName        *)
(* label).  A tick works on a record st of what it has changed so far:     *)
(* the cluster's pods and autoscalers, the log of client calls, the errs   *)
(* slice of the running subtask, updateHPAs' allPods and whether its last  *)
(* listing failed.  The failures of the cluster client during a tick are   *)
(* inputs of the tick: env names the calls that fail.                      *)
(***************************************************************************)
ReasonEvicted == "Evicted"
DeploymentProgressing == "Progressing"
ConditionTrue == "True"
DwellSeconds == 35
\* the zero time.Time, which no timestamp of the cluster equals
ZeroTime == 0

\* t.After(u)
After(t, u) == t > u

Call(op, arg, ok) == [op |-> op, arg |-> arg, ok |-> ok]

FirstError(errs) == IF errs = <<>> THEN NoErr ELSE errs[1]

\* parallel.RunFirstErr: no error if no unit failed, else the error of a
\* unit that failed.
RunFirstErr(errs) ==
    IF \A e \in errs : ~IsErr(e) THEN {NoErr} ELSE {e \in errs : IsErr(e)}

\* config.Kubernetes.DeletePod
DeletePod(st, pod, env) ==
    IF pod.Name \in env.deleteFails
    THEN [st EXCEPT !.calls = Append(@, Call("DeletePod", pod.Name, FALSE)),
                    !.errs = Append(@, Err("DeletePod", <<pod.Name>>))]
    ELSE [st EXCEPT !.calls = Append(@, Call("DeletePod", pod.Name, TRUE)),
                    !.pods = SelectSeq(@, LAMBDA p : p.Name # pod.Name)]

\* The sweep leaving its loop at the first delete that fails.
RECURSIVE deleteEvictedPodsFromFailFast(_, _, _, _)
deleteEvictedPodsFromFailFast(failedPods, i, st, env) ==
    IF i > Len(failedPods) \/ st.errs # <<>> THEN st
    ELSE IF failedPods[i].Reason = ReasonEvicted
    THEN deleteEvictedPodsFromFailFast(failedPods, i + 1, DeletePod(st, failedPods[i], env), env)
    ELSE deleteEvictedPodsFromFailFast(failedPods, i + 1, st, env)

RECURSIVE deleteEvictedPodsFrom(_, _, _, _)
deleteEvictedPodsFrom(failedPods, i, st, env) ==
    IF i > Len(failedPods) THEN st
    ELSE IF failedPods[i].Reason = ReasonEvicted
    THEN deleteEvictedPodsFrom(failedPods, i + 1, DeletePod(st, failedPods[i], env), env)
    ELSE deleteEvictedPodsFrom(failedPods, i + 1, st, env)

deleteEvictedPods(failedPods, st, env) == deleteEvictedPodsFrom(failedPods, 1, st, env)

IsPodReady(pod) == pod.Ready
IsPodSpecLatest(pod, deployment) == pod.Latest

numUpdatedReadyReplicas(deployment, podList) ==
    Cardinality({i \in 1..Len(podList) :
                    /\ podList[i].apiName = deployment.apiName
                    /\ IsPodReady(podList[i])
                    /\ IsPodSpecLatest(podList[i], deployment)})

\* The pods a []kcore.Pod holds, nil holding none.
PodsOf(allPods) == IF allPods = NilPtr THEN <<>> ELSE Deref(allPods)

NumListCalls(log) == Len(SelectSeq(log, LAMBDA c : c.op = "ListPodsWithLabels"))

\* config.Kubernetes.ListPodsWithLabels("apiName"): the slice that holds no
\* pod is the nil slice or an empty one.
ListPodsWithLabels(st, env) ==
    IF NumListCalls(st.calls) + 1 \in env.listFails
    THEN [st EXCEPT !.calls = Append(@, Call("ListPodsWithLabels", "apiName", FALSE)),
                    !.errs = Append(@, Err("ListPodsWithLabels", <<>>)),
                    !.allPods = NilPtr,
                    !.listErr = TRUE]
    ELSE [st EXCEPT !.calls = Append(@, Call("ListPodsWithLabels", "apiName", TRUE)),
                    !.allPods = IF SelectSeq(st.pods, LAMBDA p : p.apiName # "") = <<>> /\ env.emptyIsNil
                                THEN NilPtr
                                ELSE Ptr(SelectSeq(st.pods, LAMBDA p : p.apiName # "")),
                    !.listErr = FALSE]

\* config.Kubernetes.CreateHPA: the cluster refuses an autoscaler of a name
\* that exists.
CreateHPA(st, apiName, env) ==
    IF apiName \in env.createFails \/ apiName \in st.hpas
    THEN [st EXCEPT !.calls = Append(@, Call("CreateHPA", apiName, FALSE)),
                    !.errs = Append(@, Err("CreateHPA", <<apiName>>))]
    ELSE [st EXCEPT !.calls = Append(@, Call("CreateHPA", apiName, TRUE)),
                    !.hpas = @ \cup {apiName}]

\* The test of the conditions loop, at clock t.
DwellElapsed(condition, t) ==
    /\ condition.Type = DeploymentProgressing
    /\ condition.Status = ConditionTrue
    /\ condition.LastUpdateTime # ZeroTime
    /\ After(t, condition.LastUpdateTime + DwellSeconds)

RECURSIVE conditionsLoop(_, _, _, _)
conditionsLoop(deployment, j, st, env) ==
    IF j > Len(deployment.Conditions) THEN st
    ELSE IF DwellElapsed(deployment.Conditions[j], env.now)
    THEN conditionsLoop(deployment, j + 1, CreateHPA(st, deployment.apiName, env), env)
    ELSE conditionsLoop(deployment, j + 1, st, env)

\* The body of the deployments loop from the replicas test on.
\* A variant without the replicas test.
afterListingNoReplicasTest(deployment, st, env) ==
    IF st.listErr THEN st
    ELSE conditionsLoop(deployment, 1, st, env)

afterListing(deployment, st, env) ==
    IF st.listErr THEN st
    ELSE IF numUpdatedReadyReplicas(deployment, PodsOf(st.allPods)) < deployment.Replicas THEN st
    ELSE conditionsLoop(deployment, 1, st, env)

\* The body of the deployments loop.
\* A variant without the HPAExists test.
updateHPANoExistsTest(deployment, st, env) ==
    IF st.allPods = NilPtr
    THEN afterListing(deployment, ListPodsWithLabels(st, env), env)
    ELSE afterListing(deployment, [st EXCEPT !.listErr = FALSE], env)

updateHPA(deployment, st, env) ==
    IF deployment.apiName \in st.hpas THEN st
    ELSE IF st.allPods = NilPtr
    THEN afterListing(deployment, ListPodsWithLabels(st, env), env)
    ELSE afterListing(deployment, [st EXCEPT !.listErr = FALSE], env)

\* The deployments loop left at the first error recorded.
RECURSIVE updateHPAsFromFailFast(_, _, _, _)
updateHPAsFromFailFast(deploymentList, i, st, env) ==
    IF i > Len(deploymentList) \/ st.errs # <<>> THEN st
    ELSE updateHPAsFromFailFast(deploymentList, i + 1, updateHPA(deploymentList[i], st, env), env)

RECURSIVE updateHPAsFrom(_, _, _, _)
updateHPAsFrom(deploymentList, i, st, env) ==
    IF i > Len(deploymentList) THEN st
    ELSE updateHPAsFrom(deploymentList, i + 1, updateHPA(deploymentList[i], st, env), env)

updateHPAs(deploymentList, st, env) == updateHPAsFrom(deploymentList, 1, st, env)

\* The state a subtask of the tick starts from.
TickState == [pods |-> pods, hpas |-> hpas, calls |-> calls, errs |-> <<>>,
              allPods |-> NilPtr, listErr |-> FALSE]

\* getCronK8sResources: the two listings run side by side.
GetCronK8sResources ==
    /\ cronPc = "idle"
    /\ ticks' = ticks + 1
    /\ hpasAtTick' = hpas
    /\ calls' = <<>>
    /\ sweepErr' = NoErr
    /\ \E fails \in SUBSET {"ListDeploymentsWithLabels", "ListPods"} :
          IF fails = {}
          THEN /\ cronDeployments' = deployments
               /\ cronFailedPods' = SelectSeq(pods, LAMBDA p : p.Phase = "Failed")
               /\ cronErr' = NoErr
               /\ cronPc' = "listed"
          ELSE /\ cronDeployments' = <<>>
               /\ cronFailedPods' = <<>>
               /\ \E f \in fails : cronErr' = Err(f, <<>>)
               /\ cronPc' = "done"
    /\ UNCHANGED <<clusterVars, prevTick, tfVars, inputVars, passVars>>

EvictedAmong(failedPods) == {i \in 1..Len(failedPods) : failedPods[i].Reason = ReasonEvicted}

\* The deployments updateHPAs does not pass over for their autoscaler.
WithoutHPA(deploymentList) == {i \in 1..Len(deploymentList) : deploymentList[i].apiName \notin hpas}

\* operatorCron evaluates deleteEvictedPods(failedPods) ...
DeleteEvictedPods ==
    /\ cronPc = "listed"
    /\ \E deleteFails \in SUBSET {cronFailedPods[i].Name : i \in EvictedAmong(cronFailedPods)} :
          \E st \in {deleteEvictedPods(cronFailedPods, TickState, [deleteFails |-> deleteFails])} :
             /\ pods' = st.pods
             /\ calls' = st.calls
             /\ sweepErr' = FirstError(st.errs)
    /\ cronPc' = "swept"
    /\ UNCHANGED <<deployments, hpas, now, ticks, cronDeployments, cronFailedPods, cronErr,
                   hpasAtTick, prevTick, tfVars, inputVars, passVars>>

\* ... then updateHPAs(deployments), and returns RunFirstErr of the two.
UpdateHPAs ==
    /\ cronPc = "swept"
    /\ \E failingLists \in SUBSET (1..Cardinality(WithoutHPA(cronDeployments))),
          createFails \in SUBSET {cronDeployments[i].apiName : i \in WithoutHPA(cronDeployments)},
          emptyIsNil \in BOOLEAN :
          \E st \in {updateHPAs(cronDeployments, TickState,
                                [now |-> now, listFails |-> failingLists,
                                 createFails |-> createFails, emptyIsNil |-> emptyIsNil])} :
             /\ hpas' = st.hpas
             /\ calls' = st.calls
             /\ cronErr' \in RunFirstErr({sweepErr, FirstError(st.errs)})
    /\ cronPc' = "done"
    /\ UNCHANGED <<deployments, pods, now, ticks, cronDeployments, cronFailedPods, sweepErr,
                   hpasAtTick, prevTick, tfVars, inputVars, passVars>>

(***************************************************************************)
(* The scheduler runs the ticks one after the other; the clock moves on    *)
(* between two ticks and nothing but the ticks changes the cluster.        *)
(***************************************************************************)
MaxTicks == 2
MaxDeployments == 2
MaxPods == 2

\* The seconds from one tick to the next.
TickInterval == 1

IsWrite(call) == call.op \in {"DeletePod", "CreateHPA"}
Writes(log) == SelectSeq(log, IsWrite)

NextTick ==
    /\ cronPc = "done"
    /\ ticks < MaxTicks
    /\ prevTick' = [ran |-> TRUE, err |-> cronErr, now |-> now, writes |-> Len(Writes(calls))]
    /\ now' = now + TickInterval
    /\ cronPc' = "idle"
    /\ UNCHANGED <<deployments, pods, hpas, ticks, cronDeployments, cronFailedPods, calls,
                   sweepErr, cronErr, hpasAtTick, tfVars, inputVars, passVars>>

\* The clock of the first tick, and timestamps around the dwell time before it.
FirstTickTime == DwellSeconds + 3
Ago(seconds) == FirstTickTime - seconds

Condition(type, status, lastUpdateTime) ==
    [Type |-> type, Status |-> status, LastUpdateTime |-> lastUpdateTime]

Progressing(lastUpdateTime) == Condition(DeploymentProgressing, ConditionTrue, lastUpdateTime)

ConditionLists ==
    {<<>>,
     <<Progressing(Ago(DwellSeconds + 1))>>,
     <<Progressing(Ago(DwellSeconds))>>,
     <<Progressing(Ago(DwellSeconds - 1))>>,
     <<Progressing(Ago(DwellSeconds - 2))>>,
     <<Progressing(ZeroTime)>>,
     <<Condition(DeploymentProgressing, "False", Ago(DwellSeconds + 1))>>,
     <<Condition("Available", ConditionTrue, Ago(DwellSeconds + 1)), Progressing(Ago(DwellSeconds + 1))>>,
     <<Progressing(Ago(DwellSeconds + 1)), Progressing(Ago(DwellSeconds + 1))>>}

Deployment(apiName, replicas, conditions) ==
    [apiName |-> apiName, Replicas |-> replicas, Conditions |-> conditions]

PodNames == <<"p1", "p2", "p3", "p4", "p5", "p6">>

Pod(apiName, ready, latest, phase, reason) ==
    [Name |-> "", apiName |-> apiName, Ready |-> ready, Latest |-> latest,
     Phase |-> phase, Reason |-> reason]

\* A pod that is ready is running; a failed pod is not ready.
PodKinds ==
    {Pod("a", TRUE, TRUE, "Running", ""),
     Pod("a", TRUE, FALSE, "Running", ""),
     Pod("a", FALSE, TRUE, "Pending", ""),
     Pod("b", TRUE, TRUE, "Running", ""),
     Pod("a", FALSE, TRUE, "Failed", ReasonEvicted),
     Pod("", FALSE, FALSE, "Failed", "Error")}

NamedPods(kinds) == [i \in 1..Len(kinds) |-> [kinds[i] EXCEPT !.Name = PodNames[i]]]

RECURSIVE ListsOfLen(_, _)
ListsOfLen(S, n) ==
    IF n <= 0 THEN {<<>>}
    ELSE {Append(l, x) : l \in ListsOfLen(S, n - 1), x \in S}

ListsUpTo(S, n) == UNION {ListsOfLen(S, k) : k \in 0..n}

InitTick ==
    /\ now = FirstTickTime
    /\ ticks = 0
    /\ cronDeployments = <<>>
    /\ cronFailedPods = <<>>
    /\ calls = <<>>
    /\ sweepErr = NoErr
    /\ cronErr = NoErr
    /\ hpasAtTick = {}
    /\ prevTick = [ran |-> FALSE, err |-> NoErr, now |-> 0, writes |-> 0]
    /\ cronPc = "idle"
    /\ IdleTF
    /\ IdlePass
    /\ s3 = {}
    /\ listing = <<>>
    /\ listFails = FALSE

\* The conditions of the deployments that come after the first.
SiblingConditionLists ==
    {<<Progressing(Ago(DwellSeconds + 1))>>,
     <<Progressing(Ago(DwellSeconds - 1))>>,
     <<Progressing(Ago(DwellSeconds + 1)), Progressing(Ago(DwellSeconds + 1))>>}

\* Deployments that differ in their conditions, each with the one ready
\* pod it asks for, and an evicted pod.
InitDwell ==
    /\ \E n \in 0..MaxDeployments :
          \E cs \in {<<c>> \o l : c \in ConditionLists, l \in ListsOfLen(SiblingConditionLists, n - 1)} :
             /\ deployments = [i \in 1..n |-> Deployment(APINames[i], 1, cs[i])]
             /\ pods = NamedPods([i \in 1..n |-> Pod(APINames[i], TRUE, TRUE, "Running", "")]
                                 \o <<Pod("", FALSE, FALSE, "Failed", ReasonEvicted)>>)
             /\ hpas \in SUBSET {APINames[i] : i \in 1..n} /\ Cardinality(hpas) <= 1
    /\ InitTick

\* Deployments past the dwell time, and pods of every kind.
InitPods ==
    /\ deployments \in
          {<<Deployment("a", r, <<Progressing(Ago(DwellSeconds + 1))>>)>> : r \in {1, 2}}
          \cup {<<Deployment("b", 1, <<Progressing(Ago(DwellSeconds + 1))>>),
                  Deployment("a", 2, <<Progressing(Ago(DwellSeconds + 1))>>)>>}
    /\ \E kinds \in ListsUpTo(PodKinds, MaxPods) : pods = NamedPods(kinds)
    /\ hpas = {}
    /\ InitTick

InitCron == InitDwell \/ InitPods

NextCron == GetCronK8sResources \/ DeleteEvictedPods \/ UpdateHPAs \/ NextTick

SpecCron == InitCron /\ [][NextCron]_vars

(***************************************************************************)
(* C2 (as stated): when operatorCron runs twice in a row and nothing but   *)
(* the first tick's own successful writes changes the cluster in between,  *)
(* the second tick performs no write: it calls neither DeletePod nor       *)
(* CreateHPA.                                                              *)
(***************************************************************************)
TickDone == cronPc = "done"

NoDwellPassedSince(t) ==
    \A i \in 1..Len(deployments) : \A j \in 1..Len(deployments[i].Conditions) :
        DwellElapsed(deployments[i].Conditions[j], now) => DwellElapsed(deployments[i].Conditions[j], t)

LabeledPods == SelectSeq(pods, LAMBDA p : p.apiName # "")

MayCreateHPA(deployment) ==
    /\ deployment.apiName \notin hpasAtTick
    /\ numUpdatedReadyReplicas(deployment, LabeledPods) >= deployment.Replicas
    /\ \E j \in 1..Len(deployment.Conditions) :
          /\ deployment.Conditions[j].Type = DeploymentProgressing
          /\ deployment.Conditions[j].Status = ConditionTrue
          /\ deployment.Conditions[j].LastUpdateTime # ZeroTime
          /\ now - deployment.Conditions[j].LastUpdateTime > DwellSeconds

CreateCalls(apiName) == {i \in 1..Len(calls) : calls[i].op = "CreateHPA" /\ calls[i].arg = apiName}

C5_CreateOnlyIf ==
    TickDone =>
        \A i \in 1..Len(calls) :
            calls[i].op = "CreateHPA" =>
                \E k \in 1..Len(cronDeployments) :
                    /\ cronDeployments[k].apiName = calls[i].arg
                    /\ MayCreateHPA(cronDeployments[k])

\* A tick that creates the autoscaler of one deployment and passes over
\* another one, past the dwell time and without autoscaler, for its replicas.
C5_Witness ==
    /\ TickDone
    /\ \E k, l \in 1..Len(cronDeployments) :
          /\ CreateCalls(cronDeployments[k].apiName) # {}
          /\ cronDeployments[l].apiName \notin hpas
          /\ CreateCalls(cronDeployments[l].apiName) = {}
          /\ \E j \in 1..Len(cronDeployments[l].Conditions) :
                DwellElapsed(cronDeployments[l].Conditions[j], now)

(***************************************************************************)
(* C9: for a deployment with no autoscaler, enough updated ready replicas  *)
(* and a condition that is Progressing and True with a non-zero            *)
(* LastUpdateTime, a tick (no pod listing of which fails) calls CreateHPA  *)
(* whenever at least 35s have elapsed since that timestamp, also when      *)
(* exactly 35s have, and does not call it when less than 35s have elapsed  *)
(* for every such condition.                                               *)
(***************************************************************************)
ProgressingStamps(deployment) ==
    {deployment.Conditions[j].LastUpdateTime : j \in
        {j \in 1..Len(deployment.Conditions) :
            /\ deployment.Conditions[j].Type = DeploymentProgressing
            /\ deployment.Conditions[j].Status = ConditionTrue
            /\ deployment.Conditions[j].LastUpdateTime # ZeroTime}}

ListingSucceeded == \A i \in 1..Len(calls) : calls[i].op = "ListPodsWithLabels" => calls[i].ok

C9_DwellTime ==
    (TickDone /\ ListingSucceeded) =>
        \A k \in 1..Len(cronDeployments) :
            (/\ cronDeployments[k].apiName \notin hpasAtTick
             /\ numUpdatedReadyReplicas(cronDeployments[k], LabeledPods) >= cronDeployments[k].Replicas
             /\ ProgressingStamps(cronDeployments[k]) # {})
            => /\ (\E t \in ProgressingStamps(cronDeployments[k]) : now - t >= DwellSeconds)
                     => CreateCalls(cronDeployments[k].apiName) # {}
               /\ (\A t \in ProgressingStamps(cronDeployments[k]) : now - t < DwellSeconds)
                     => CreateCalls(cronDeployments[k].apiName) = {}

(***************************************************************************)
(* C11: every API of an accepted manifest fits what the node has left      *)
(* after the reservations: cpu <= node CPU minus the base reserve (minus   *)
(* the device-plugin reserve on a GPU node), mem, if set, <= node memory   *)
(* minus the same reserves, gpu <= the node's GPU count; an API exceeding  *)
(* one of them is never accepted, and the pass that gets to its capacity   *)
(* rule fails with the insufficient-capacity error.                        *)
(***************************************************************************)
PostReservationCPU ==
    IF instance.GPU > 0
    THEN (instance.CPU - CortexCPUReserve) - NvidiaCPUReserve
    ELSE instance.CPU - CortexCPUReserve

FitsNode(compute) ==
    /\ compute.CPU <= PostReservationCPU
    /\ compute.Mem # NilPtr => Deref(compute.Mem) <= PostReservationMem
    /\ compute.GPU <= instance.GPU

C11_CapacityFit ==
    \A i \in 1..Len(apis) :
        (caller = "validateAPIs" /\ vPc = "done") =>
            /\ Accepted => FitsNode(Deref(apis[i]).Compute)
            /\ ~FitsNode(Deref(apis[i]).Compute) =>
                  /\ IsErr(vErr)
                  /\ (/\ InLoop
                      /\ vIdx = i
                      /\ vErr.path = <<>> \/ Head(vErr.path) # "predictor"
                      /\ ReplicaBoundsHold(Deref(apis[i]).Compute))
                        => vErr.kind = "ErrNoAvailableNodeComputeLimit"

\* An accepted API that asks for exactly the CPU and the memory the node
\* has left.
C11_Witness ==
    /\ Accepted
    /\ \E i \in 1..Len(apis) :
          /\ Deref(apis[i]).Compute.CPU = PostReservationCPU
          /\ Deref(apis[i]).Compute.Mem = Ptr(PostReservationMem)

(***************************************************************************)
(* C12: the rules of its predictor type hold on every API validateAPI has  *)
(* accepted: a python predictor has neither signature key nor model; a     *)
(* tensorflow predictor has a model that is an existing .zip object or a   *)
(* valid TensorFlow directory; an onnx predictor has a model that exists   *)
(* as an object and no signature key.                                      *)
(***************************************************************************)
VariantRulesHold(predictor) ==
    CASE predictor.Type = "python" ->
            predictor.SignatureKey = NilPtr /\ predictor.Model = NilPtr
      [] predictor.Type = "tensorflow" ->
            /\ predictor.Model # NilPtr
            /\ IF HasSuffixZip(Deref(predictor.Model))
               THEN Deref(predictor.Model) \in s3
               ELSE isValidTensorFlowS3Directory(Deref(predictor.Model))
      [] predictor.Type = "onnx" ->
            /\ predictor.Model # NilPtr
            /\ Deref(predictor.Model) \in s3
            /\ predictor.SignatureKey = NilPtr

C12_PredictorVariantRules ==
    \A i \in PassedAPIs : VariantRulesHold(Deref(apis[i]).Predictor)

\* An accepted manifest with a tensorflow predictor that has a signature
\* key and whose model was resolved below the path of the manifest.
C12_Witness ==
    /\ Accepted
    /\ \E i \in 1..Len(apis) :
          /\ Deref(apis[i]).Predictor.Type = "tensorflow"
          /\ Deref(apis[i]).Predictor.SignatureKey # NilPtr
          /\ Deref(apis[i]).Predictor.Model # Deref(manifest[i].predictor).model

(***************************************************************************)
(* C13: for a tensorflow predictor whose model path does not end in .zip,  *)
(* when the path is not a valid TensorFlow directory and the listing fails *)
(* or lists no valid candidate below it, validateTensorFlowPredictor fails *)
(* with the invalid TensorFlow directory error and leaves predictor.model  *)
(* as it was; predictor.model differs from the manifest's only after the   *)
(* check succeeded, and is then a valid directory at or below the          *)
(* manifest's path.                                                        *)
(***************************************************************************)
\* The directories the listing offers below a path.
ListedCandidates(path) ==
    {Front(listing[k]) : k \in {k \in 1..Len(listing) :
        /\ HasSuffixSavedModelPb(listing[k])
        /\ IsPrefixOf(path, listing[k])
        /\ Len(listing[k]) > Len(path)}}

ProbeFails(path) ==
    /\ ~isValidTensorFlowS3Directory(path)
    /\ listFails \/ \A d \in ListedCandidates(path) : ~isValidTensorFlowS3Directory(d)

\* The APIs validateAPI has been applied to.
ProcessedAPIs == PassedAPIs \cup (IF InLoop /\ vPc = "done" THEN {vIdx} ELSE {})

ManifestModel(i) == Deref(manifest[i].predictor).model

IsTensorFlowDirEntry(i) ==
    /\ Deref(manifest[i].predictor).type = "tensorflow"
    /\ ManifestModel(i) # NilPtr
    /\ ~HasSuffixZip(Deref(ManifestModel(i)))

C13_TensorFlowProbeFailure ==
    caller = "validateAPIs" =>
        \A i \in 1..Len(apis) :
            /\ (i \in ProcessedAPIs /\ IsTensorFlowDirEntry(i) /\ ProbeFails(Deref(ManifestModel(i))))
                  => /\ vPc = "done" /\ vIdx = i
                     /\ vErr.kind = "ErrInvalidTensorFlowDir"
                     /\ Deref(apis[i]).Predictor.Model = ManifestModel(i)
            /\ Deref(apis[i]).Predictor.Model # ManifestModel(i)
                  => /\ i \in ProcessedAPIs
                     /\ IsTensorFlowDirEntry(i)
                     /\ ~(vIdx = i /\ vErr.kind = "ErrInvalidTensorFlowDir")
                     /\ isValidTensorFlowS3Directory(Deref(Deref(apis[i]).Predictor.Model))
                     /\ IsPrefixOf(Deref(ManifestModel(i)), Deref(Deref(apis[i]).Predictor.Model))

\* The pass fails on a model path that has a complete export below it
\* because the listing fails.
C13_Witness ==
    /\ vPc = "done"
    /\ vErr.kind = "ErrInvalidTensorFlowDir"
    /\ listFails
    /\ \E d \in ListedCandidates(Deref(ManifestModel(vIdx))) : isValidTensorFlowS3Directory(d)
    /\ Deref(apis[vIdx]).Predictor.Model = ManifestModel(vIdx)

(***************************************************************************)
(* C14: every API validateAPI has accepted whose manifest entry has no     *)
(* endpoint has the endpoint "/" followed by its name; an endpoint given   *)
(* in the manifest is the API's endpoint before, during and after the      *)
(* pass.                                                                   *)
(***************************************************************************)
C14_EndpointDefault ==
    caller = "validateAPIs" =>
        \A i \in 1..Len(apis) :
            IF manifest[i].endpoint = NilPtr
            THEN i \in PassedAPIs
                    => Deref(apis[i]).Endpoint = Ptr(<<"/", Deref(manifest[i].name)>>)
            ELSE Deref(apis[i]).Endpoint = manifest[i].endpoint

\* An accepted manifest with an API whose endpoint was defaulted and one
\* whose endpoint was given and is not the default.
C14_Witness ==
    /\ Accepted
    /\ \E i, j \in 1..Len(apis) :
          /\ manifest[i].endpoint = NilPtr
          /\ Deref(apis[i]).Endpoint # NilPtr
          /\ manifest[j].endpoint # NilPtr
          /\ manifest[j].endpoint # Ptr(<<"/", Deref(manifest[j].name)>>)

(***************************************************************************)
(* C15: the names of an accepted manifest are pairwise distinct:           *)
(* validateAPIs returns NO_APIS for an empty list and DUPLICATE_NAME (for  *)
(* APIs that share a name) for a list in which two APIs have the same      *)
(* name, and in both cases returns before it fetches the cluster's facts   *)
(* and before it applies validateAPI to any API.                           *)
(***************************************************************************)
SomeNameTwice ==
    \E i, j \in 1..Len(manifest) : i # j /\ manifest[i].name = manifest[j].name

\* No fetch and no validateAPI have happened.
NothingFetchedOrProbed == ~fetched /\ vIdx = 0 /\ apis = APIsOf(manifest)

C15_DistinctNames ==
    (caller = "validateAPIs" /\ vPc # "start") =>
        /\ Accepted => Len(manifest) > 0 /\ ~SomeNameTwice
        /\ Len(manifest) = 0 =>
              vPc = "done" /\ vErr.kind = "ErrNoAPIs" /\ NothingFetchedOrProbed
        /\ SomeNameTwice =>
              /\ vPc = "done"
              /\ vErr.kind = "ErrDuplicateName"
              /\ Len(vErr.args) > 1
              /\ \A k, l \in 1..Len(vErr.args) :
                    manifest[vErr.args[k]].name = manifest[vErr.args[l]].name
              /\ NothingFetchedOrProbed

\* A pass over three or more APIs returns DUPLICATE_NAME for two of them.
C15_Witness ==
    /\ caller = "validateAPIs"
    /\ vPc = "done"
    /\ vErr.kind = "ErrDuplicateName"
    /\ Len(manifest) > 2
    /\ Len(vErr.args) = 2
    /\ ~fetched

(***************************************************************************)
(* C16: in one tick updateHPAs calls ListPodsWithLabels at most once,      *)
(* whatever the number of deployments without autoscaler, also when the    *)
(* listing returns no pods or fails.                                       *)
(***************************************************************************)
ListCalls == SelectSeq(calls, LAMBDA c : c.op = "ListPodsWithLabels")

C16_PodsListedAtMostOnce == TickDone => Len(ListCalls) <= 1

(***************************************************************************)
(* C17: in one tick updateHPAs calls CreateHPA at most once for a          *)
(* deployment, whatever the entries of its conditions list.                *)
(***************************************************************************)
C17_AtMostOneCreate ==
    TickDone =>
        \A k \in 1..Len(cronDeployments) :
            Cardinality(CreateCalls(cronDeployments[k].apiName)) <= 1

(***************************************************************************)
(* C18: autoscaler installation is best-effort: a failed CreateHPA or pod  *)
(* listing does not end updateHPAs; every deployment that has no           *)
(* autoscaler, enough updated ready pods and a condition past the dwell    *)
(* time, and whose own pod listing did not fail, gets its CreateHPA call   *)
(* and, if that call succeeds, its autoscaler; the tick returns no error   *)
(* only if no call failed, and updateHPAs' error is that of its first      *)
(* failed call.                                                            *)
(***************************************************************************)
\* The deployments without autoscaler when the tick began, in the order of
\* the loop; the j-th of them is the one the j-th listing, if any, is for.
PendingDeployments == SelectSeq(cronDeployments, LAMBDA d : d.apiName \notin hpasAtTick)

OwnListingFailed(j) == j <= Len(ListCalls) /\ ~ListCalls[j].ok

PastDwell(deployment) ==
    \E j \in 1..Len(deployment.Conditions) : DwellElapsed(deployment.Conditions[j], now)

FailedCalls(ops) == SelectSeq(calls, LAMBDA c : c.op \in ops /\ ~c.ok)

ErrorOfCall(call) ==
    IF call.op = "ListPodsWithLabels" THEN Err(call.op, <<>>) ELSE Err(call.op, <<call.arg>>)

C18_BestEffort ==
    TickDone =>
        /\ \A j \in 1..Len(PendingDeployments) :
              (/\ numUpdatedReadyReplicas(PendingDeployments[j], LabeledPods)
                     >= PendingDeployments[j].Replicas
               /\ PastDwell(PendingDeployments[j])
               /\ ~OwnListingFailed(j))
              => /\ CreateCalls(PendingDeployments[j].apiName) # {}
                 /\ (\E i \in CreateCalls(PendingDeployments[j].apiName) : calls[i].ok)
                        <=> PendingDeployments[j].apiName \in hpas
        /\ ~IsErr(cronErr) => \A i \in 1..Len(calls) : calls[i].ok
        /\ FailedCalls({"ListPodsWithLabels", "CreateHPA"}) # <<>> =>
              /\ IsErr(cronErr)
              /\ cronErr \in {sweepErr, ErrorOfCall(FailedCalls({"ListPodsWithLabels", "CreateHPA"})[1])}

\* A tick in which the listing for the first deployment and the creation
\* for another fail, and a third call creates an autoscaler.
C18_Witness ==
    /\ TickDone
    /\ Len(ListCalls) > 1
    /\ ~ListCalls[1].ok
    /\ \E i \in 1..Len(calls) : calls[i].op = "CreateHPA" /\ calls[i].ok
    /\ cronErr.kind = "ListPodsWithLabels"

(***************************************************************************)
(* C19: deleteEvictedPods calls DeletePod for every listed failed pod      *)
(* whose reason is Evicted, in the order listed and also after a delete    *)
(* failed, for no other pod, and returns the error of the first delete     *)
(* that failed, no error if none did.                                      *)
(***************************************************************************)
DeleteCalls == SelectSeq(calls, LAMBDA c : c.op = "DeletePod")

EvictedListed == SelectSeq(cronFailedPods, LAMBDA p : p.Reason = ReasonEvicted)

C19_EvictedSweep ==
    cronPc \in {"swept", "done"} =>
        /\ Len(DeleteCalls) = Len(EvictedListed)
        /\ \A i \in 1..Len(DeleteCalls) : DeleteCalls[i].arg = EvictedListed[i].Name
        /\ IF FailedCalls({"DeletePod"}) = <<>>
           THEN sweepErr = NoErr
           ELSE sweepErr = Err("DeletePod", <<FailedCalls({"DeletePod"})[1].arg>>)

\* A sweep whose first delete fails and whose second succeeds.
C19_Witness ==
    /\ cronPc = "swept"
    /\ Len(DeleteCalls) > 1
    /\ ~DeleteCalls[1].ok
    /\ DeleteCalls[2].ok

(***************************************************************************)
(* C20: the validation pass is fail-fast in declaration order: the error   *)
(* validateAPIs returns is the error of the first API of the manifest that *)
(* fails a rule (no error if none does), that error is of the first rule   *)
(* the API fails in the order predictor, compute, endpoint, and the APIs   *)
(* after it are left as the manifest gave them.                            *)
(***************************************************************************)
PredictorRuleFails(api) == IsErr(validatePredictor(api.Predictor).err)

ComputeRuleFails(api) == ~ReplicaBoundsHold(api.Compute) \/ ~FitsNode(api.Compute)

EndpointRuleFails(api) ==
    IsErr(validateEndpointCollisions(
              IF api.Endpoint = NilPtr
              THEN [api EXCEPT !.Endpoint = Ptr(DefaultEndpoint(api.Name))]
              ELSE api,
              vsSnap))

RuleFails(api) == PredictorRuleFails(api) \/ ComputeRuleFails(api) \/ EndpointRuleFails(api)

ManifestAPI(i) == Deref(APIsOf(manifest)[i])

C20_FailFastInOrder ==
    (caller = "validateAPIs" /\ vIdx >= 1 /\ vPc = "done") =>
        IF IsErr(vErr)
        THEN /\ RuleFails(ManifestAPI(vIdx))
             /\ \A i \in 1..(vIdx - 1) : ~RuleFails(ManifestAPI(i))
             /\ PredictorRuleFails(ManifestAPI(vIdx)) => vErr.path # <<>> /\ Head(vErr.path) = "predictor"
             /\ (~PredictorRuleFails(ManifestAPI(vIdx)) /\ ComputeRuleFails(ManifestAPI(vIdx)))
                   => vErr.path # <<>> /\ Head(vErr.path) = "compute"
             /\ \A j \in (vIdx + 1)..Len(apis) : apis[j] = APIsOf(manifest)[j]
        ELSE \A i \in 1..Len(apis) : ~RuleFails(ManifestAPI(i))

(***************************************************************************)
(* C21: one tick runs the sweep and the installation as units launched     *)
(* together: the installation has been launched by the time the sweep has  *)
(* deleted a pod and finished, so that a deletion and a creation can occur *)
(* in either order within the tick.                                        *)
(***************************************************************************)
\* updateHPAs has been called in the tick: operatorCron has got past its
\* listings and evaluated the second argument of RunFirstErr.
InstallationLaunched ==
    /\ cronPc = "done"
    /\ cronErr.kind \notin {"ListDeploymentsWithLabels", "ListPods"}

SweepFinished == cronPc = "swept" \/ InstallationLaunched

C21_LaunchedTogether ==
    (SweepFinished /\ DeleteCalls # <<>>) => InstallationLaunched

\* What the tick does instead: every DeletePod call of a tick precedes every
\* call updateHPAs makes.
SweepPrecedesInstallation ==
    \A i, j \in 1..Len(calls) :
        (calls[i].op = "DeletePod" /\ calls[j].op \in {"ListPodsWithLabels", "CreateHPA"})
            => i < j

=============================================================================
